---- MODULE Spec2Model ----
(***************************************************************************)
(* Model of app.py, the road-accident dashboard.  The script is run from   *)
(* top to bottom once when the page is opened and once more after every    *)
(* widget interaction: load_data (memoised), the sidebar widgets, the row  *)
(* filter of main_data, and the if/elif chain that renders the section.    *)
(***************************************************************************)
EXTENDS Integers, Sequences, FiniteSets, TLC

VARIABLES
    files,             \* the data directory: file name -> content, or Missing
    tables,            \* what load_data returned (the memoised tuple), or NotLoaded
    section,           \* value of the "Select Analysis Section" selectbox
    selected_years,    \* value of the "Select Years" multiselect
    selected_causes,   \* value of the "Select Accident Causes" multiselect
    selected_regions,  \* value of the "Select Regions" multiselect
    filtered_data,     \* main_data[mask]
    view,              \* what the section dispatch put on the page
    status             \* "start" | "rendered" | "error"

vars == <<files, tables, section, selected_years, selected_causes,
          selected_regions, filtered_data, view, status>>

----------------------------------------------------------------------------
(* Bounds and input domains of the model *)

MaxRows == 2

\* Before the script has bound them: no tables, no widget value, an empty page.
NotLoaded == <<>>
NoSection == ""
NoView == [title |-> FALSE, header |-> "", charts |-> <<>>]

\* Alphabetical order of the string values of the model, for sorted().
Alphabet == <<"North", "South", "Speeding", "Weather">>

----------------------------------------------------------------------------
(* The data directory *)

FileOrder == <<"sample_road_accident_data.csv", "yearly_accidents.csv",
               "monthly_accidents.csv", "daily_accidents.csv",
               "time_accidents.csv", "road_type_severity.csv",
               "weather_severity.csv", "severity_by_cause.csv">>

FileNames == {FileOrder[i] : i \in 1..Len(FileOrder)}

\* The rows a primary CSV is made of: every combination of two years, two
\* causes and two regions, over four weather conditions, one of them
\* ("Hazy") not among the five the weather chart lists.
Row(y, c, r, w) ==
    [Year |-> y, AccidentCause |-> c, Region |-> r, WeatherConditions |-> w]

RowValues ==
    {Row(2020, "Speeding", "North", "Rainy"), Row(2020, "Speeding", "South", "Clear"),
     Row(2020, "Weather", "North", "Clear"),  Row(2020, "Weather", "South", "Rainy"),
     Row(2021, "Speeding", "North", "Foggy"), Row(2021, "Speeding", "South", "Rainy"),
     Row(2021, "Weather", "North", "Hazy"),   Row(2021, "Weather", "South", "Clear")}

RowSeqs == UNION {[1..n -> RowValues] : n \in 0..MaxRows}

\* pd.read_csv gives the rows a RangeIndex; idx is that index label.
Indexed(rows) == [i \in 1..Len(rows) |->
                    [idx |-> i, Year |-> rows[i].Year,
                     AccidentCause |-> rows[i].AccidentCause,
                     Region |-> rows[i].Region,
                     WeatherConditions |-> rows[i].WeatherConditions]]

\* A file of the directory: absent, or present with its content.
Absent == [exists |-> FALSE, content |-> <<>>]
Present(c) == [exists |-> TRUE, content |-> c]

\* The seven pre-aggregated CSVs are static; the script only passes them on.
AggregateContent(f) == [csv |-> f]

\* A data directory: a primary CSV of at most MaxRows rows, and at most one
\* of the eight files absent.
Directory(rows, gone) ==
    [f \in FileNames |->
        IF f \in gone THEN Absent
        ELSE IF f = FileOrder[1] THEN Present(rows)
        ELSE Present(AggregateContent(f))]

----------------------------------------------------------------------------
(* load_data *)

\* Mutant: an absent file read as an empty frame.
read_csv_lenient(fs, f) ==
    IF ~fs[f].exists THEN [ok |-> TRUE, frame |-> <<>>]
    ELSE IF f = FileOrder[1]
         THEN [ok |-> TRUE,
               frame |-> [i \in 1..Len(fs[f].content) |->
                            [idx |-> i, Year |-> fs[f].content[i].Year,
                             AccidentCause |-> fs[f].content[i].AccidentCause,
                             Region |-> fs[f].content[i].Region,
                             WeatherConditions |-> fs[f].content[i].WeatherConditions]]]
    ELSE [ok |-> TRUE, frame |-> fs[f].content]

\* pd.read_csv: FileNotFoundError for an absent file; the primary file's rows
\* get their index, an aggregate file is taken as it is.
read_csv(fs, f) ==
    IF ~fs[f].exists THEN [ok |-> FALSE, frame |-> <<>>]
    ELSE IF f = FileOrder[1] THEN [ok |-> TRUE, frame |-> Indexed(fs[f].content)]
    ELSE [ok |-> TRUE, frame |-> fs[f].content]

\* The eight reads in order; the first that raises ends load_data, and the
\* frames read so far are locals that die with the call.
RECURSIVE ReadFrom(_, _, _)
ReadFrom(fs, i, acc) ==
    IF i > Len(FileOrder) THEN [ok |-> TRUE, value |-> acc]
    ELSE LET r == read_csv(fs, FileOrder[i])
         IN  IF ~r.ok THEN [ok |-> FALSE, value |-> NotLoaded]
             ELSE ReadFrom(fs, i + 1, Append(acc, r.frame))

load_data(fs) == ReadFrom(fs, 1, <<>>)

\* @st.cache_data: a stored return value is returned again without reading.
cached_load_data(cache, fs) ==
    IF cache # NotLoaded THEN [ok |-> TRUE, value |-> cache] ELSE load_data(fs)

\* The tuple unpacking of line 35.
main_data(t) == t[1]
yearly_data(t) == t[2]
monthly_data(t) == t[3]
daily_data(t) == t[4]
time_data(t) == t[5]
road_type_data(t) == t[6]
weather_data(t) == t[7]
severity_data(t) == t[8]

----------------------------------------------------------------------------
(* Sidebar: options and defaults *)

Range(s) == {s[i] : i \in 1..Len(s)}

\* Series.unique(): the distinct values of a column.
UniqueYears(frame) == {frame[i].Year : i \in 1..Len(frame)}
UniqueCauses(frame) == {frame[i].AccidentCause : i \in 1..Len(frame)}
UniqueRegions(frame) == {frame[i].Region : i \in 1..Len(frame)}

\* sorted() of integers and of strings, as the ascending list.
RECURSIVE SortedInts(_)
SortedInts(S) ==
    IF S = {} THEN <<>>
    ELSE LET m == CHOOSE x \in S : \A y \in S : x <= y
         IN  <<m>> \o SortedInts(S \ {m})

SortedStrings(S) == SelectSeq(Alphabet, LAMBDA a : a \in S)

SectionOptions == <<"Yearly Trends", "Monthly Trends", "Daily Trends",
                    "Time of Day", "Road Type and Location",
                    "Weather Conditions", "Outcomes by Cause">>

YearOptions(t) == SortedInts(UniqueYears(main_data(t)))
CauseOptions(t) == SortedStrings(UniqueCauses(main_data(t)))
RegionOptions(t) == SortedStrings(UniqueRegions(main_data(t)))

\* default= of each multiselect, and the selectbox's first option.  A
\* multiselect returns a list; the script uses it only through isin, so the
\* model keeps the set of its elements.
DefaultYears(t) == Range(YearOptions(t))
DefaultCauses(t) == Range(CauseOptions(t))
DefaultRegions(t) == Range(RegionOptions(t))
DefaultSection == SectionOptions[1]

----------------------------------------------------------------------------
(* Row filter *)

\* Mutant: an empty selection read as "no filter".
isinOrEmpty(v, values) == values = {} \/ v \in values

isin(v, values) == v \in values

\* Mutant: the three tests joined by | instead of &.
MaskAny(r, years, causes, regions) ==
    \/ isin(r.Year, years)
    \/ isin(r.AccidentCause, causes)
    \/ isin(r.Region, regions)

Mask(r, years, causes, regions) ==
    /\ isin(r.Year, years)
    /\ isin(r.AccidentCause, causes)
    /\ isin(r.Region, regions)

\* Mutant: the frame's first row is never looked at.
FilterRowsFromSecond(frame, years, causes, regions) ==
    SelectSeq(IF frame = <<>> THEN <<>> ELSE Tail(frame),
              LAMBDA r : r.Year \in years /\ r.AccidentCause \in causes
                         /\ r.Region \in regions)

\* Mutant: the passing rows come out last first.
FilterRowsReversed(frame, years, causes, regions) ==
    LET kept == SelectSeq(frame, LAMBDA r : r.Year \in years /\ r.AccidentCause \in causes
                                            /\ r.Region \in regions)
    IN  [j \in 1..Len(kept) |-> kept[Len(kept) + 1 - j]]

\* Mutant: the first passing row is lost.
FilterRowsDropFirstMatch(frame, years, causes, regions) ==
    LET kept == SelectSeq(frame, LAMBDA r : r.Year \in years /\ r.AccidentCause \in causes
                                            /\ r.Region \in regions)
    IN  IF kept = <<>> THEN <<>> ELSE Tail(kept)

\* frame[mask]: the rows whose mask is True, in the frame's order, each with
\* the index label it had.
FilterRows(frame, years, causes, regions) ==
    SelectSeq(frame, LAMBDA r : Mask(r, years, causes, regions))

----------------------------------------------------------------------------
(* Section rendering *)

\* A cell of a Series: a number, or NaN (no value).
Num(k) == <<k>>
NaN == <<>>

\* Series.value_counts(): the values that occur, each with its number of rows.
value_counts(frame) ==
    [w \in {frame[i].WeatherConditions : i \in 1..Len(frame)} |->
        Cardinality({i \in 1..Len(frame) : frame[i].WeatherConditions = w})]

\* Series.reindex(labels): one cell per label, in the labels' order; a label
\* the Series does not have gets NaN, a label of the Series not asked for is
\* dropped.
reindex(series, labels) ==
    [i \in 1..Len(labels) |->
        IF labels[i] \in DOMAIN series THEN Num(series[labels[i]]) ELSE NaN]

WeatherOrder == <<"Windy", "Rainy", "Clear", "Snowy", "Foggy">>

weather_counts(filtered) == reindex(value_counts(filtered), WeatherOrder)

\* What a chart call is given: the frame, the key (x axis or row labels) and
\* the plotted columns.
Frame(name, rows) == [name |-> name, rows |-> rows, transposed |-> FALSE]
Transposed(name, rows) == [name |-> name, rows |-> rows, transposed |-> TRUE]
NoFrame == [name |-> "", rows |-> <<>>, transposed |-> FALSE]
Chart(kind, frame, key, columns) ==
    [kind |-> kind, frame |-> frame, key |-> key, columns |-> columns]

Page(header, charts) == [title |-> TRUE, header |-> header, charts |-> charts]

Causes5 == <<"Weather", "Drunk Driving", "Mechanical Failure", "Speeding",
             "Distracted Driving">>
CausesAZ == <<"Distracted Driving", "Drunk Driving", "Mechanical Failure",
              "Speeding", "Weather">>
Days == <<"Friday", "Monday", "Saturday", "Sunday", "Thursday", "Tuesday",
          "Wednesday">>
TimesOfDay == <<"Afternoon", "Evening", "Morning", "Night">>
Severities == <<"Minor", "Moderate", "Severe">>

\* The branches of the chain.  filtered_data is a global in scope of each of
\* them; only the "Weather Conditions" branch reads it.
YearlyTrends(t, filtered) ==
    Page("Yearly Trends in Road Accidents",
         <<Chart("bar", Frame("yearly_data", yearly_data(t)), <<"Year">>, Causes5),
           Chart("line", Frame("yearly_data", yearly_data(t)), <<"Year">>, <<"Total">>)>>)

MonthlyTrends(t, filtered) ==
    Page("Monthly Trends in Road Accidents",
         <<Chart("bar", Frame("monthly_data", monthly_data(t)), <<"Month">>, CausesAZ),
           Chart("line", Frame("monthly_data", monthly_data(t)), <<"Month">>, CausesAZ)>>)

DailyTrends(t, filtered) ==
    Page("Accidents by Day of the Week",
         <<Chart("bar", Frame("daily_data", daily_data(t)), <<"Accident Cause">>, Days),
           Chart("line", Transposed("daily_data", daily_data(t)), <<"index">>, Causes5)>>)

TimeOfDay(t, filtered) ==
    Page("Accidents by Time of Day",
         <<Chart("bar", Frame("time_data", time_data(t)), <<"Accident Cause">>, TimesOfDay),
           Chart("line", Transposed("time_data", time_data(t)), <<"index">>,
                 <<"Mechanical Failure", "Drunk Driving", "Speeding",
                   "Distracted Driving", "Weather">>)>>)

RoadTypeAndLocation(t, filtered) ==
    Page("Accidents by Road Type and Location",
         <<Chart("heatmap", Frame("road_type_data", road_type_data(t)),
                 <<"Urban/Rural", "Road Type">>, Severities)>>)

WeatherConditions(t, filtered) ==
    Page("Accidents by Weather Conditions",
         <<Chart("bar", NoFrame, WeatherOrder, weather_counts(filtered)),
           Chart("bar", Frame("weather_data", weather_data(t)),
                 <<"Weather Conditions">>, Severities)>>)

\* Mutant: the severity chart drawn from the filtered rows.
OutcomesByCauseFiltered(t, filtered) ==
    Page("Outcomes by Accident Cause",
         <<Chart("bar", Frame("filtered_data", filtered), <<"Accident Cause">>, Severities),
           Chart("line", Frame("filtered_data", filtered), <<"Accident Cause">>, Severities)>>)

OutcomesByCause(t, filtered) ==
    Page("Outcomes by Accident Cause",
         <<Chart("bar", Frame("severity_data", severity_data(t)), <<"Accident Cause">>, Severities),
           Chart("line", Frame("severity_data", severity_data(t)), <<"Accident Cause">>, Severities)>>)

\* The if/elif chain of lines 129-350.  It has no else: for any other name
\* no branch runs, nothing is raised, and the page holds the title and the
\* footer only.
Dispatch(name, t, filtered) ==
    IF name = "Yearly Trends" THEN YearlyTrends(t, filtered)
    ELSE IF name = "Monthly Trends" THEN MonthlyTrends(t, filtered)
    ELSE IF name = "Daily Trends" THEN DailyTrends(t, filtered)
    ELSE IF name = "Time of Day" THEN TimeOfDay(t, filtered)
    ELSE IF name = "Road Type and Location" THEN RoadTypeAndLocation(t, filtered)
    ELSE IF name = "Weather Conditions" THEN WeatherConditions(t, filtered)
    ELSE IF name = "Outcomes by Cause" THEN OutcomesByCause(t, filtered)
    ELSE Page("", <<>>)

----------------------------------------------------------------------------
(* One run of the script *)

\* Mutant: the filtered view is kept from the run before unless the page is new.
RenderStale(t, name, years, causes, regions) ==
    /\ tables' = t
    /\ section' = name
    /\ selected_years' = years
    /\ selected_causes' = causes
    /\ selected_regions' = regions
    /\ filtered_data' = IF status = "start"
                        THEN SelectSeq(t[1], LAMBDA r : r.Year \in years
                                 /\ r.AccidentCause \in causes /\ r.Region \in regions)
                        ELSE filtered_data
    /\ view' = Dispatch(name, t, filtered_data')
    /\ status' = "rendered"
    /\ UNCHANGED files

\* Lines 54-63 and 126-350 with the widgets' values given: the tables are
\* read, never assigned.
Render(t, name, years, causes, regions) ==
    /\ tables' = t
    /\ section' = name
    /\ selected_years' = years
    /\ selected_causes' = causes
    /\ selected_regions' = regions
    /\ filtered_data' = FilterRows(main_data(t), years, causes, regions)
    /\ view' = Dispatch(name, t, FilterRows(main_data(t), years, causes, regions))
    /\ status' = "rendered"
    /\ UNCHANGED files

\* An exception at line 35 ends the run: nothing below it is executed.
Halt ==
    /\ status' = "error"
    /\ UNCHANGED <<files, tables, section, selected_years, selected_causes,
                   selected_regions, filtered_data, view>>

Init ==
    /\ \E rows \in RowSeqs :
         \E gone \in {{}} \cup {{f} : f \in FileNames} :
            files = Directory(rows, gone)
    /\ tables = NotLoaded
    /\ section = NoSection
    /\ selected_years = {}
    /\ selected_causes = {}
    /\ selected_regions = {}
    /\ filtered_data = <<>>
    /\ view = NoView
    /\ status = "start"

\* Opening the page: every widget returns its default.
FirstRun ==
    /\ status = "start"
    /\ LET r == cached_load_data(tables, files)
       IN  IF r.ok
           THEN Render(r.value, DefaultSection, DefaultYears(r.value),
                       DefaultCauses(r.value), DefaultRegions(r.value))
           ELSE Halt

\* Each interaction changes one widget's value and reruns the script; the
\* other widgets return the values they hold.
Rerun(name, years, causes, regions) ==
    LET r == cached_load_data(tables, files)
    IN  IF r.ok THEN Render(r.value, name, years, causes, regions) ELSE Halt

ChangeSection(name) ==
    /\ name # section
    /\ Rerun(name, selected_years, selected_causes, selected_regions)

ChangeYears(years) ==
    /\ years # selected_years
    /\ Rerun(section, years, selected_causes, selected_regions)

ChangeCauses(causes) ==
    /\ causes # selected_causes
    /\ Rerun(section, selected_years, causes, selected_regions)

ChangeRegions(regions) ==
    /\ regions # selected_regions
    /\ Rerun(section, selected_years, selected_causes, regions)

\* The widgets exist once a run has reached the sidebar; each offers the
\* options computed from main_data.
SelectSection ==
    /\ status = "rendered"
    /\ \E name \in Range(SectionOptions) : ChangeSection(name)

SelectYears ==
    /\ status = "rendered"
    /\ \E years \in SUBSET Range(YearOptions(tables)) : ChangeYears(years)

SelectCauses ==
    /\ status = "rendered"
    /\ \E causes \in SUBSET Range(CauseOptions(tables)) : ChangeCauses(causes)

SelectRegions ==
    /\ status = "rendered"
    /\ \E regions \in SUBSET Range(RegionOptions(tables)) : ChangeRegions(regions)

Next == FirstRun \/ SelectSection \/ SelectYears \/ SelectCauses \/ SelectRegions

Spec == Init /\ [][Next]_vars

\* The dispatch as a function of its argument: the chain is run on names the
\* selectbox does not offer as well.
OtherNames == {"Hourly Trends"}

ResolveSection ==
    /\ status = "rendered"
    /\ \E name \in Range(SectionOptions) \cup OtherNames : ChangeSection(name)

NextResolve == FirstRun \/ ResolveSection \/ SelectYears \/ SelectCauses \/ SelectRegions

SpecResolve == Init /\ [][NextResolve]_vars

----------------------------------------------------------------------------
(* Properties *)

Rendered == status = "rendered"

\* The membership tests of the filter contract, on one row.
Passes(r) ==
    /\ r.Year \in selected_years
    /\ r.AccidentCause \in selected_causes
    /\ r.Region \in selected_regions

NonEmptySelection ==
    selected_years # {} /\ selected_causes # {} /\ selected_regions # {}

\* Every filtered row is the row of main_data that has its index label.
RowsOfMain ==
    \A j \in 1..Len(filtered_data) :
        /\ filtered_data[j].idx \in 1..Len(main_data(tables))
        /\ filtered_data[j] = main_data(tables)[filtered_data[j].idx]

\* C1: for non-empty selections of years, causes and regions, the filtered
\* rows are exactly the rows of main_data that pass all three membership
\* tests: none that passes is dropped, none that fails is kept.
FilterExact ==
    (Rendered /\ NonEmptySelection) =>
        /\ RowsOfMain
        /\ \A j \in 1..Len(filtered_data) : Passes(filtered_data[j])
        /\ \A i \in 1..Len(main_data(tables)) :
              Passes(main_data(tables)[i]) =>
                  \E j \in 1..Len(filtered_data) : filtered_data[j].idx = i

\* Some row passes, and some row fails one test only while passing the others.
FilterExactWitness ==
    /\ Rendered /\ NonEmptySelection
    /\ Len(filtered_data) >= 1
    /\ \E i \in 1..Len(main_data(tables)) :
          LET r == main_data(tables)[i]
          IN  /\ r.Year \notin selected_years
              /\ r.AccidentCause \in selected_causes
              /\ r.Region \in selected_regions

CountOf(w) ==
    Cardinality({j \in 1..Len(filtered_data) : filtered_data[j].WeatherConditions = w})

\* C2: the "Weather Conditions" section plots five counts in the order
\* Windy, Rainy, Clear, Snowy, Foggy, each the number of filtered rows with
\* that weather condition, zero for a condition no filtered row has.
WeatherCountsZeroFilled ==
    (Rendered /\ section = "Weather Conditions") =>
        /\ view.charts[1].key = <<"Windy", "Rainy", "Clear", "Snowy", "Foggy">>
        /\ view.charts[1].columns =
              [i \in 1..5 |-> Num(CountOf(view.charts[1].key[i]))]

\* C3: a section name that is not one of the seven mapped names makes the
\* run fail with an error; no page is produced for it.
UnknownSectionRaises ==
    (status # "start" /\ section \notin Range(SectionOptions)) => status = "error"

SomeFileAbsent == \E f \in FileNames : ~files[f].exists

\* C4: with any one of the eight files absent, the run fails and nothing is
\* loaded: no table, no widget value, no filtered rows, no page.
LoadAllOrNothing ==
    SomeFileAbsent =>
        /\ status \in {"start", "error"}
        /\ tables = NotLoaded
        /\ section = NoSection
        /\ filtered_data = <<>>
        /\ view = NoView

\* The run has failed with the last file read the only one absent.
LoadAllOrNothingWitness ==
    /\ status = "error"
    /\ ~files["severity_by_cause.csv"].exists
    /\ \A f \in FileNames \ {"severity_by_cause.csv"} : files[f].exists
    /\ files["sample_road_accident_data.csv"].content # <<>>

StaticSections ==
    {"Yearly Trends", "Monthly Trends", "Daily Trends", "Time of Day",
     "Road Type and Location", "Outcomes by Cause"}

\* The section-to-table mapping: the table, the file it is loaded from, and
\* the value columns of that table.
MappedTable(name) ==
    CASE name = "Yearly Trends" -> "yearly_data"
      [] name = "Monthly Trends" -> "monthly_data"
      [] name = "Daily Trends" -> "daily_data"
      [] name = "Time of Day" -> "time_data"
      [] name = "Road Type and Location" -> "road_type_data"
      [] name = "Outcomes by Cause" -> "severity_data"

MappedFile(name) ==
    CASE name = "Yearly Trends" -> "yearly_accidents.csv"
      [] name = "Monthly Trends" -> "monthly_accidents.csv"
      [] name = "Daily Trends" -> "daily_accidents.csv"
      [] name = "Time of Day" -> "time_accidents.csv"
      [] name = "Road Type and Location" -> "road_type_severity.csv"
      [] name = "Outcomes by Cause" -> "severity_by_cause.csv"

MappedColumns(name) ==
    CASE name = "Yearly Trends" ->
            {"Weather", "Drunk Driving", "Mechanical Failure", "Speeding",
             "Distracted Driving", "Total"}
      [] name = "Monthly Trends" ->
            {"Distracted Driving", "Drunk Driving", "Mechanical Failure",
             "Speeding", "Weather"}
      [] name = "Daily Trends" ->
            {"Friday", "Monday", "Saturday", "Sunday", "Thursday", "Tuesday",
             "Wednesday"}
      [] name = "Time of Day" -> {"Afternoon", "Evening", "Morning", "Night"}
      [] name = "Road Type and Location" -> {"Minor", "Moderate", "Severe"}
      [] name = "Outcomes by Cause" -> {"Minor", "Moderate", "Severe"}

\* The columns of the section's table that its charts plot.
PlottedColumns(v) ==
    UNION {Range(v.charts[k].columns) :
              k \in {n \in 1..Len(v.charts) : ~v.charts[n].frame.transposed}}

StaticViewFixed ==
    (Rendered /\ section \in StaticSections) =>
        /\ Len(view.charts) >= 1
        /\ \A k \in 1..Len(view.charts) :
              /\ view.charts[k].frame.name = MappedTable(section)
              /\ view.charts[k].frame.rows = files[MappedFile(section)].content
        /\ PlottedColumns(view) = MappedColumns(section)

\* C5: for each of the six static sections every chart is drawn from the
\* section's mapped table with the mapped columns, and a change of the filter
\* selection under such a section leaves the view as it was: the view does
\* not depend on the filtered rows.
StaticSectionsIgnoreFilter ==
    /\ []StaticViewFixed
    /\ [][(Rendered /\ section \in StaticSections /\ section' = section)
             => view' = view]_vars

\* A static section is shown while the filter keeps some rows and drops others.
StaticSectionsWitness ==
    /\ Rendered
    /\ section = "Outcomes by Cause"
    /\ Len(filtered_data) >= 1
    /\ Len(filtered_data) < Len(main_data(tables))

\* C6: with every distinct year, cause and region of main_data selected, the
\* filtered rows are all the rows of main_data, in the original order.
DefaultSelectionKeepsAll ==
    (/\ Rendered
     /\ selected_years = {main_data(tables)[i].Year : i \in 1..Len(main_data(tables))}
     /\ selected_causes =
            {main_data(tables)[i].AccidentCause : i \in 1..Len(main_data(tables))}
     /\ selected_regions =
            {main_data(tables)[i].Region : i \in 1..Len(main_data(tables))})
        => filtered_data = main_data(tables)

\* The default selection over a table of two rows or more that differ in
\* year, and all of them are kept.
DefaultSelectionWitness ==
    /\ Rendered
    /\ Len(main_data(tables)) >= 2
    /\ selected_years = {2020, 2021}
    /\ selected_causes =
           {main_data(tables)[i].AccidentCause : i \in 1..Len(main_data(tables))}
    /\ selected_regions =
           {main_data(tables)[i].Region : i \in 1..Len(main_data(tables))}
    /\ Len(filtered_data) = Len(main_data(tables))

\* C7: if the selection of any one dimension is empty, no row is kept,
\* whatever the other two selections are, and the run ends normally with its
\* page, not with an error.
EmptySelectionNoRows ==
    (/\ status # "start"
     /\ tables # NotLoaded
     /\ (selected_years = {} \/ selected_causes = {} \/ selected_regions = {}))
        => /\ filtered_data = <<>>
           /\ status = "rendered"
           /\ view.title

\* Only the year selection is empty, over a table that has rows.
EmptySelectionWitness ==
    /\ Rendered
    /\ selected_years = {}
    /\ selected_causes # {}
    /\ selected_regions # {}
    /\ main_data(tables) # <<>>
    /\ filtered_data = <<>>

\* C8: the filtered rows are a subsequence of main_data: their index labels
\* are strictly increasing (same relative order, no row twice) and each is
\* the row of main_data with that label.
FilterPreservesOrder ==
    Rendered =>
        /\ RowsOfMain
        /\ \A j, k \in 1..Len(filtered_data) :
              j < k => filtered_data[j].idx < filtered_data[k].idx

\* Two rows pass and one between or before them does not, or all pass.
FilterPreservesOrderWitness ==
    /\ Rendered
    /\ Len(filtered_data) >= 2
    /\ filtered_data[1] # filtered_data[2]

\* C9: filtering the filtered rows again with the same selection gives the
\* same sequence.
FilterIdempotent ==
    Rendered =>
        FilterRows(filtered_data, selected_years, selected_causes, selected_regions)
            = filtered_data

\* The filter has kept some rows and dropped others.
FilterIdempotentWitness ==
    /\ Rendered
    /\ Len(filtered_data) >= 1
    /\ Len(filtered_data) < Len(main_data(tables))
    /\ section = "Weather Conditions"

ViewsCurrent ==
    Rendered =>
        /\ tables = load_data(files).value
        /\ filtered_data = FilterRows(main_data(tables), selected_years,
                                      selected_causes, selected_regions)
        /\ view = Dispatch(section, tables, filtered_data)

\* C10: after any sequence of interactions the filtered rows are the filter
\* of the loaded main_data with the current selection and the page is the
\* one of the current section; no interaction changes a loaded table or a
\* file.
InteractionsRederive ==
    /\ []ViewsCurrent
    /\ [][Rendered => (tables' = tables /\ files' = files)]_vars

\* Section and selection have both been changed, and the weather chart shows
\* the rows of the current selection.
InteractionsWitness ==
    /\ Rendered
    /\ section = "Weather Conditions"
    /\ selected_years = {2021}
    /\ selected_regions = {"South"}
    /\ Len(filtered_data) = 1
    /\ Len(main_data(tables)) = 2

====
